---- MODULE Spec2Model ----
(***************************************************************************)
(* Model of the walletBalance scripts: the inbound internal-transfer       *)
(* report (src/unnamed/part_000) and the end-of-year snapshot              *)
(* (src/snapshot.mts).                                                     *)
(*                                                                         *)
(* Five specifications share the module:                                   *)
(*   SpecResolve   the two block-time resolvers, one probe per step        *)
(*   SpecRun       the inbound main() loop over (chain, wallet) pairs      *)
(*   SpecScope     the inbound main() over WALLETS, --wallet, --chain and  *)
(*                 the chunk windows                                       *)
(*   SpecGate      the three throttled request gates with a clock          *)
(*   SpecSnapshot  the snapshot's main(): price prefetch and chain loop    *)
(***************************************************************************)
EXTENDS Integers, Sequences, FiniteSets, TLC

(***************************************************************************)
(* Bounds                                                                  *)
(***************************************************************************)
MaxLatest == 4

TsValues == {0, 10, 20, 30}
Targets == {0, 5, 10, 15, 20, 30, 35}

VARIABLES
    \* ---- block-time resolvers
    blockTs,      \* the chain: block number -> timestamp, over 0..latest
    targetTs,     \* the resolve call's target timestamp
    resolver,     \* "inbound" (part_000) or "snapshot" (snapshot.mts)
    closest,      \* inbound tie-break: "before" | "after"
    rpc,          \* position in the resolver: "start" | "loop" | "done"
    low, high,    \* the search interval
    probes,       \* block numbers fetched so far, in order
    result        \* the returned block number (-1 until returned)

rvars == <<blockTs, targetTs, resolver, closest, rpc, low, high, probes, result>>

VARIABLES
    \* ---- inbound run: configuration read at startup (part_000:8-47, 330-346)
    ETHERSCAN_API_KEY,  \* TRUE when the key is set
    RAW_WALLETS,        \* the WALLETS entries
    onlyWallet,         \* --wallet, lower-cased; "" = absent
    onlyChainArg,       \* --chain, lower-cased; "" = absent
    cap,                \* row cap
    latestMode,         \* --mode=latest
    orderArg,           \* "newest" | "oldest"
    chunkDays,          \* 0 = single range
    maxPages,
    dryRun,
    START_TS, END_TS,   \* the window
    ledger,             \* the explorer's internal-transaction list, oldest first
    \* ---- inbound run: main() state
    pc,                 \* position in main()
    scoped,             \* chain -> wallets
    chainIdx, walletIdx,\* position of the two for loops
    page,               \* page of the running fetch
    collected,          \* records accumulated by the running fetch
    chunkStartTs, chunkEndTs,
    startBlock, endBlock,
    internalInbound,    \* records of the current pair not yet looked at
    totalEth, totalUsd, written,
    seen,               \* dedup keys
    reachedCap,         \* reached.cap
    priceCache,         \* day -> price
    file,               \* lines written to the output stream
    exitCode,           \* -1 while running
    \* ---- inbound run: observations
    emitted,            \* rows accepted so far, in order
    fetched,            \* ledger positions returned by the explorer so far
    processed,          \* ledger positions whose record entered the record loop body
    explorerReqs,       \* number of explorer requests issued
    failed,             \* number of pairs ended by the catch of line 525
    priceReqs,          \* coingeckoGet calls so far: [day, ok, dup]
    statusErrors,       \* explorer responses whose body carried an error status
    visited,            \* pairs whose try block was entered: <<chain, walletIdx>>
    pageLog,            \* page requests of the running fetch: [page, n, status]
    origin,             \* where each emitted row came from: [chain, w, fetch, pos]
    chunkLog            \* the windows of the running pair's chunks: [s, e]

cfgvars == <<ETHERSCAN_API_KEY, RAW_WALLETS, onlyWallet, onlyChainArg, cap, latestMode, orderArg, chunkDays,
             maxPages, dryRun, START_TS, END_TS, ledger>>

loopvars == <<chainIdx, walletIdx>>
fetchvars == <<page, collected, chunkStartTs, chunkEndTs, startBlock, endBlock>>
aggvars == <<totalEth, totalUsd, written, seen, reachedCap, priceCache, file, emitted, processed>>

obsvars == <<priceReqs, statusErrors, visited, pageLog, origin, chunkLog>>

mvars == <<cfgvars, pc, scoped, loopvars, fetchvars, internalInbound, aggvars,
           exitCode, fetched, explorerReqs, failed, obsvars>>

VARIABLES
    \* ---- request gates (part_000:128-191)
    now,            \* Date.now(), in ms
    lastRequestTs,  \* class -> lastRequestTs / lastCgRequestTs / lastRpcRequestTs
    gpc,            \* "idle" | "gate" | "send" | "inflight"
    gclass,         \* the class of the running call
    attempt,        \* retries (etherscanGet) or i (withRetry) of the running call
    calls,          \* calls started so far
    outcome,        \* how the last call ended: "none" | "ok" | "error"
    dispatched,     \* class -> [n: requests sent so far, at: time of the last one]
    sent,           \* requests sent by the running call
    delays,         \* the backoff sleeps of the running call, in order
    response        \* the last response of the running call:
                    \* "none" | "ok" | "rate" (429) | "transport" (timeout, 5xx, network)

gvars == <<now, lastRequestTs, gpc, gclass, attempt, calls, outcome, dispatched,
           sent, delays, response>>

VARIABLES
    \* ---- snapshot run (snapshot.mts:221-371)
    RPC_OK,         \* RPC_BASE and RPC_OP are set to real provider URLs
    spc,            \* position in the snapshot's main()
    ethUsd,         \* <<price>>, or <<>> for null
    lookups,        \* token address -> "idle" | "awaiting" | "done" (prefetch callbacks)
    coinPriceCache, \* snapshot priceCache: cache key -> price
    coinReqs,       \* cache keys of the upstream price requests issued, in order
    addressUsdMap,  \* token address -> <<price>> | <<>> (null)
    sChainIdx, sWalletIdx,
    block,          \* the block resolved for the chain
    csvRows,        \* CSV rows accumulator
    outFile,        \* the lines written to csvs/eoy_2024.csv
    sExit           \* exit code of the snapshot, -1 while running

svars == <<RPC_OK, spc, ethUsd, lookups, coinPriceCache, coinReqs, addressUsdMap,
           sChainIdx, sWalletIdx, block, csvRows, outFile, sExit>>

vars == <<rvars, mvars, gvars, svars>>

(***************************************************************************)
(* Helpers                                                                 *)
(***************************************************************************)
Min(a, b) == IF a < b THEN a ELSE b
Max(a, b) == IF a > b THEN a ELSE b

RECURSIVE CeilLog2(_)
CeilLog2(n) == IF n <= 1 THEN 0 ELSE 1 + CeilLog2((n + 1) \div 2)

Latest == Len(blockTs) - 1

NonDecreasing == \A i \in 1..Len(blockTs) : \A j \in i..Len(blockTs) : blockTs[i] <= blockTs[j]

\* rpcGetBlockByNumber: the timestamp of block num; a block the chain does
\* not have comes back as a null result, parsed as "0x0".
rpcGetBlockByNumber(num) ==
    IF num \in 0..Latest THEN blockTs[num + 1] ELSE 0

\* snapshot: client.getBlock({ blockNumber }) timestamp
getBlock(num) == blockTs[num + 1]

(***************************************************************************)
(* Inbound resolveBlockAtTime (part_000:214-234)                           *)
(***************************************************************************)
\* line 219
InboundMid(lo, hi, c) == (lo + hi + (IF c = "after" THEN 1 ELSE 0)) \div 2

\* lines 221-223: the outcome of one probe at mid
InboundProbe_NoEarlyReturn(lo, hi, mid, ts, target) ==
    IF ts < target THEN [ret |-> FALSE, val |-> -1, low |-> mid + 1, high |-> hi]
    ELSE [ret |-> FALSE, val |-> -1, low |-> lo, high |-> mid - 1]

InboundProbe(lo, hi, mid, ts, target) ==
    IF ts = target THEN [ret |-> TRUE, val |-> mid, low |-> lo, high |-> hi]
    ELSE IF ts < target THEN [ret |-> FALSE, val |-> -1, low |-> mid + 1, high |-> hi]
    ELSE [ret |-> FALSE, val |-> -1, low |-> lo, high |-> mid - 1]

\* lines 226-233: the boundary adjustment after the loop
InboundAdjust_Swapped(lo, ts, target, c, latest) ==
    IF c = "before"
    THEN IF ts < target /\ lo > 0 THEN lo - 1 ELSE lo
    ELSE IF ts > target THEN Min(lo + 1, latest) ELSE lo

InboundAdjust_Unclamped(lo, ts, target, c, latest) ==
    IF c = "before"
    THEN IF ts > target /\ lo > 0 THEN lo - 1 ELSE lo
    ELSE IF ts < target THEN lo + 1 ELSE lo

InboundAdjust(lo, ts, target, c, latest) ==
    IF c = "before"
    THEN IF ts > target /\ lo > 0 THEN lo - 1 ELSE lo
    ELSE IF ts < target THEN Min(lo + 1, latest) ELSE lo

\* lines 215-217
InboundStart ==
    /\ resolver = "inbound" /\ rpc = "start"
    /\ low' = 0
    /\ high' = Latest
    /\ rpc' = "loop"
    /\ UNCHANGED <<blockTs, targetTs, resolver, closest, probes, result>>
    /\ UNCHANGED <<mvars, gvars, svars>>

\* lines 218-224: one iteration of the while loop
InboundLoop ==
    /\ resolver = "inbound" /\ rpc = "loop"
    /\ low < high
    /\ LET mid == InboundMid(low, high, closest)
           r == InboundProbe(low, high, mid, rpcGetBlockByNumber(mid), targetTs)
       IN /\ probes' = Append(probes, mid)
          /\ low' = r.low
          /\ high' = r.high
          /\ rpc' = IF r.ret THEN "done" ELSE "loop"
          /\ result' = IF r.ret THEN r.val ELSE result
    /\ UNCHANGED <<blockTs, targetTs, resolver, closest>>
    /\ UNCHANGED <<mvars, gvars, svars>>

\* lines 226-233: loop exit, last probe, adjusted return
InboundFinish ==
    /\ resolver = "inbound" /\ rpc = "loop"
    /\ ~(low < high)
    /\ probes' = Append(probes, low)
    /\ result' = InboundAdjust(low, rpcGetBlockByNumber(low), targetTs, closest, Latest)
    /\ rpc' = "done"
    /\ UNCHANGED <<blockTs, targetTs, resolver, closest, low, high>>
    /\ UNCHANGED <<mvars, gvars, svars>>

(***************************************************************************)
(* Snapshot resolveBlockAtTime (snapshot.mts:123-151)                      *)
(***************************************************************************)
\* line 139
SnapshotMid_Lower(lo, hi) == (lo + hi) \div 2

SnapshotMid(lo, hi) == (lo + hi + 1) \div 2

\* lines 142-146: the outcome of one probe at mid
SnapshotProbe_Strict(lo, hi, mid, ts, target) ==
    IF ts < target THEN [low |-> mid, high |-> hi] ELSE [low |-> lo, high |-> mid - 1]

SnapshotProbe(lo, hi, mid, ts, target) ==
    IF ts <= target THEN [low |-> mid, high |-> hi] ELSE [low |-> lo, high |-> mid - 1]

\* lines 127-136: latest block probe, quick exit
SnapshotStart ==
    /\ resolver = "snapshot" /\ rpc = "start"
    /\ probes' = Append(probes, Latest)
    /\ IF getBlock(Latest) <= targetTs
       THEN /\ result' = Latest
            /\ rpc' = "done"
            /\ UNCHANGED <<low, high>>
       ELSE /\ low' = 0
            /\ high' = Latest
            /\ rpc' = "loop"
            /\ UNCHANGED result
    /\ UNCHANGED <<blockTs, targetTs, resolver, closest>>
    /\ UNCHANGED <<mvars, gvars, svars>>

\* lines 138-149: one iteration of the while loop
SnapshotLoop ==
    /\ resolver = "snapshot" /\ rpc = "loop"
    /\ low < high
    /\ LET mid == SnapshotMid(low, high)
           r == SnapshotProbe(low, high, mid, getBlock(mid), targetTs)
       IN /\ probes' = Append(probes, mid)
          /\ low' = r.low
          /\ high' = r.high
    /\ UNCHANGED <<blockTs, targetTs, resolver, closest, rpc, result>>
    /\ UNCHANGED <<mvars, gvars, svars>>

\* line 150
SnapshotFinish ==
    /\ resolver = "snapshot" /\ rpc = "loop"
    /\ ~(low < high)
    /\ result' = low
    /\ rpc' = "done"
    /\ UNCHANGED <<blockTs, targetTs, resolver, closest, low, high, probes>>
    /\ UNCHANGED <<mvars, gvars, svars>>

Classes == {"explorer", "oracle", "rpc"}

\* the gates' variables while no gate is exercised
GateIdle ==
    /\ now = 0 /\ lastRequestTs = [c \in Classes |-> 0]
    /\ gpc = "off" /\ gclass = "explorer" /\ attempt = 0 /\ calls = 0 /\ outcome = "none"
    /\ dispatched = [c \in Classes |-> [n |-> 0, at |-> 0]]
    /\ sent = 0 /\ delays = <<>> /\ response = "none"

\* the inbound run's variables while only a resolver runs
RunIdle ==
    /\ ETHERSCAN_API_KEY = TRUE /\ RAW_WALLETS = <<>> /\ cap = 0
    /\ onlyWallet = "" /\ onlyChainArg = ""
    /\ latestMode = FALSE /\ orderArg = "newest" /\ chunkDays = 0 /\ maxPages = 1
    /\ dryRun = TRUE /\ START_TS = 0 /\ END_TS = 0 /\ ledger = <<>>
    /\ pc = "idle" /\ scoped = <<>> /\ chainIdx = 1 /\ walletIdx = 1
    /\ page = 1 /\ collected = <<>>
    /\ chunkStartTs = 0 /\ chunkEndTs = 0 /\ startBlock = 0 /\ endBlock = 0
    /\ internalInbound = <<>>
    /\ totalEth = 0 /\ totalUsd = 0 /\ written = 0
    /\ seen = {} /\ reachedCap = FALSE /\ priceCache = <<>> /\ file = <<>>
    /\ exitCode = -1
    /\ emitted = <<>> /\ fetched = {} /\ processed = {} /\ explorerReqs = 0 /\ failed = 0
    /\ priceReqs = <<>> /\ statusErrors = 0 /\ visited = <<>> /\ pageLog = <<>> /\ origin = <<>>
    /\ chunkLog = <<>>

\* snapshot.mts:53-72, 252-255: the unique token addresses, in insertion order
uniqueAddresses == <<"usdcBase", "usdcOp", "opToken">>

\* the snapshot's variables while the snapshot does not run
SnapshotIdle ==
    /\ RPC_OK = TRUE /\ spc = "idle" /\ ethUsd = <<>>
    /\ lookups = [i \in 1..Len(uniqueAddresses) |-> "idle"]
    /\ coinPriceCache = <<>> /\ coinReqs = <<>>
    /\ addressUsdMap = <<>>
    /\ sChainIdx = 1 /\ sWalletIdx = 1 /\ block = -1
    /\ csvRows = <<>> /\ outFile = <<>> /\ sExit = -1

Chains == UNION {[1..n -> TsValues] : n \in 1..(MaxLatest + 1)}

InitResolve ==
    /\ blockTs \in Chains
    /\ targetTs \in Targets
    /\ \/ resolver = "inbound" /\ closest \in {"before", "after"}
       \/ resolver = "snapshot" /\ closest = "before"
    /\ rpc = "start"
    /\ low = 0
    /\ high = 0
    /\ probes = <<>>
    /\ result = -1
    /\ RunIdle
    /\ GateIdle
    /\ SnapshotIdle

NextResolve ==
    \/ InboundStart
    \/ InboundLoop
    \/ InboundFinish
    \/ SnapshotStart
    \/ SnapshotLoop
    \/ SnapshotFinish

SpecResolve == InitResolve /\ [][NextResolve]_vars

\* the resolvers run to completion: every probe is awaited by the one caller
SpecResolveFair == SpecResolve /\ WF_vars(NextResolve)

(***************************************************************************)
(* Inbound run: strings, wallets, records                                  *)
(***************************************************************************)
\* page size: offset = 1000 (part_000:245) and the 1000 of perPage
\* (part_000:305), scaled down so that a fetch spans several pages
PageSize == 2
\* longest explorer list
MaxRecords == 3

\* String.prototype.toLowerCase on the strings of the model
toLowerCase(s) ==
    CASE s = "0xA" -> "0xa"
      [] s = "0xB" -> "0xb"
      [] s = "0xH1" -> "0xh1"
      [] OTHER -> s

\* entry.split(":") -> [maybeChain, maybeAddr]; "" stands for undefined
split(entry) ==
    CASE entry = "base:0xA" -> <<"base", "0xA">>
      [] entry = "base:0xa" -> <<"base", "0xa">>
      [] entry = "op:0xB" -> <<"op", "0xB">>
      [] entry = "optimism:0xA" -> <<"optimism", "0xA">>
      [] OTHER -> <<entry, "">>

\* line 414
ChainNames_Reversed == <<"optimism", "base">>

ChainNames == <<"base", "optimism">>

\* lines 13-27
RECURSIVE parseWallets(_)
parseWallets(raw) ==
    IF raw = <<>> THEN [base |-> <<>>, optimism |-> <<>>]
    ELSE LET rest == parseWallets(SubSeq(raw, 1, Len(raw) - 1))
             entry == raw[Len(raw)]
             maybeChain == split(entry)[1]
             maybeAddr == split(entry)[2]
             isOp == maybeChain = "optimism" \/ maybeChain = "op"
         IN IF maybeAddr # "" /\ (maybeChain = "base" \/ isOp)
            THEN IF isOp
                 THEN [rest EXCEPT !.optimism = Append(@, maybeAddr)]
                 ELSE [rest EXCEPT !.base = Append(@, maybeAddr)]
            ELSE IF entry # ""
                 THEN [base |-> Append(rest.base, entry), optimism |-> Append(rest.optimism, entry)]
                 ELSE rest

\* line 338: Number(limit) || 200000, limit 0 standing for absent, "0" or NaN
DefaultCap == 200000
CapOf(limit) == IF limit # 0 THEN limit ELSE DefaultCap

\* line 454, scaled: one day is 10 time units
daySeconds == 10

\* dateIso.slice(0, 10): the calendar day of a timestamp
DayOf(ts) == ts \div daySeconds

\* the timestamp the explorer reports for a record: its block's
Ts(t) == blockTs[t.block + 1]

\* the records the explorer may hold, oldest first (sort=asc is by block):
\* two records whose hashes differ in case only, a record for another
\* address, a zero-value record, a record in the last block
AllRecords == <<
    [hash |-> "0xh1", to |-> "0xa", value |-> 1, block |-> 1],
    [hash |-> "0xh4", to |-> "0xb", value |-> 1, block |-> 1],
    [hash |-> "0xh2", to |-> "0xa", value |-> 2, block |-> 2],
    [hash |-> "0xh5", to |-> "0xa", value |-> 0, block |-> 2],
    [hash |-> "0xH1", to |-> "0xA", value |-> 2, block |-> 3],
    [hash |-> "0xh3", to |-> "0xA", value |-> 3, block |-> 3],
    [hash |-> "0xh6", to |-> "0xa", value |-> 1, block |-> 4] >>

\* the elements of s at the positions in S, in order
RECURSIVE Pick(_, _)
Pick(s, S) ==
    IF s = <<>> THEN <<>>
    ELSE LET front == Pick(SubSeq(s, 1, Len(s) - 1), S)
         IN IF Len(s) \in S THEN Append(front, s[Len(s)]) ELSE front

\* explorer lists: up to MaxRecords of the records, oldest first
Ledgers ==
    {Pick(AllRecords, S) : S \in {T \in SUBSET (1..Len(AllRecords)) : Cardinality(T) <= MaxRecords}}

\* a record as returned, tagged with its position in the explorer's list
Tagged(l) == [i \in 1..Len(l) |-> [id |-> i, hash |-> l[i].hash, to |-> l[i].to,
                                     value |-> l[i].value, block |-> l[i].block]]

RECURSIVE Reverse(_)
Reverse(s) == IF s = <<>> THEN <<>> ELSE Append(Reverse(Tail(s)), Head(s))

Ids(s) == {s[i].id : i \in 1..Len(s)}

\* the page of a list the explorer serves for page/offset
PageOf(list, p, offset) ==
    SubSeq(list, (p - 1) * offset + 1, Min(p * offset, Len(list)))

\* txlistinternal with startblock/endblock, sort=asc (lines 249-260)
ExplorerRange(sb, eb, p) ==
    PageOf(SelectSeq(ledger, LAMBDA t : sb <= t.block /\ t.block <= eb), p, PageSize)

\* txlistinternal without block bounds, sort by order (lines 309-318)
ExplorerLatest(order, p, perPage) ==
    PageOf(IF order = "newest" THEN Reverse(ledger) ELSE ledger, p, perPage)

\* lines 214-234 as a function: the loop and the adjustment of the resolver
RECURSIVE InboundSearch(_, _, _, _)
InboundSearch(lo, hi, target, c) ==
    IF lo < hi
    THEN LET mid == InboundMid(lo, hi, c)
             r == InboundProbe(lo, hi, mid, rpcGetBlockByNumber(mid), target)
         IN IF r.ret THEN r.val ELSE InboundSearch(r.low, r.high, target, c)
    ELSE InboundAdjust(lo, rpcGetBlockByNumber(lo), target, c, Latest)

resolveBlockAtTime(target, c) == InboundSearch(0, Latest, target, c)

(***************************************************************************)
(* Inbound run: main() (part_000:329-538)                                  *)
(***************************************************************************)
chain == ChainNames[chainIdx]
wallets == scoped[chain]
wallet == wallets[walletIdx]

InPairLoop == pc = "pair" /\ chainIdx <= Len(ChainNames)

chunked == ~latestMode /\ chunkDays > 0

\* lines 424, 461, 496 without the filter on the receiver
InboundOf_All(txs, w) == txs

\* lines 424, 461, 496: the records addressed to the wallet
InboundOf(txs, w) == SelectSeq(txs, LAMBDA t : toLowerCase(t.to) = toLowerCase(w))

\* lines 264-268: the client-side window filter
InWindow_None(txs) == txs

InWindow(txs) == SelectSeq(txs, LAMBDA t : Ts(t) >= START_TS /\ Ts(t) <= END_TS)

\* lines 370-373 alone: the --chain filter
applyFilters_ChainOnly(s, ow, oc) ==
    [base |-> IF oc = "optimism" THEN <<>> ELSE s.base,
     optimism |-> IF oc = "base" THEN <<>> ELSE s.optimism]

\* lines 364-373: the --wallet filter, then the --chain filter
applyFilters(s, ow, oc) ==
    LET kept(c) == IF ow # "" THEN SelectSeq(s[c], LAMBDA a : toLowerCase(a) = ow) ELSE s[c]
    IN [base |-> IF oc = "optimism" THEN <<>> ELSE kept("base"),
        optimism |-> IF oc = "base" THEN <<>> ELSE kept("optimism")]

\* lines 334-373: scoped as the pair loop reads it
Scope == applyFilters(parseWallets(RAW_WALLETS), onlyWallet, onlyChainArg)

\* lines 330-333
StartupNoKey ==
    /\ pc = "startup"
    /\ ~ETHERSCAN_API_KEY
    /\ exitCode' = 1
    /\ pc' = "exit"
    /\ UNCHANGED <<svars, gvars, rvars, cfgvars, scoped, loopvars, fetchvars, internalInbound, aggvars,
                   fetched, explorerReqs, failed, obsvars>>

\* lines 334-378
StartupNoWallets ==
    /\ pc = "startup"
    /\ ETHERSCAN_API_KEY
    /\ Len(Scope.base) + Len(Scope.optimism) = 0
    /\ scoped' = Scope
    /\ exitCode' = 1
    /\ pc' = "exit"
    /\ UNCHANGED <<svars, gvars, rvars, cfgvars, loopvars, fetchvars, internalInbound, aggvars,
                   fetched, explorerReqs, failed, obsvars>>

\* lines 334-412: wallets parsed and filtered, accumulators zeroed, header
\* written
Startup ==
    /\ pc = "startup"
    /\ ETHERSCAN_API_KEY
    /\ Len(Scope.base) + Len(Scope.optimism) # 0
    /\ scoped' = Scope
    /\ totalEth' = 0 /\ totalUsd' = 0 /\ written' = 0
    /\ seen' = {}
    /\ reachedCap' = FALSE
    /\ file' = IF dryRun THEN <<>> ELSE <<[kind |-> "header"]>>
    /\ chainIdx' = 1 /\ walletIdx' = 1
    /\ pc' = "pair"
    /\ UNCHANGED <<svars, gvars, rvars, cfgvars, fetchvars, internalInbound, priceCache, emitted, processed,
                   exitCode, fetched, explorerReqs, failed, obsvars>>

\* lines 414-418: the wallets of the chain are exhausted (or there are none)
NextChain ==
    /\ InPairLoop
    /\ walletIdx > Len(wallets)
    /\ chainIdx' = chainIdx + 1
    /\ walletIdx' = 1
    /\ UNCHANGED <<svars, gvars, rvars, cfgvars, pc, scoped, fetchvars, internalInbound, aggvars,
                   exitCode, fetched, explorerReqs, failed, obsvars>>

\* line 419: if (reached.cap) break
CapBreak ==
    /\ InPairLoop
    /\ walletIdx <= Len(wallets)
    /\ reachedCap
    /\ chainIdx' = chainIdx + 1
    /\ walletIdx' = 1
    /\ UNCHANGED <<svars, gvars, rvars, cfgvars, pc, scoped, fetchvars, internalInbound, aggvars,
                   exitCode, fetched, explorerReqs, failed, obsvars>>

PairStarts == InPairLoop /\ walletIdx <= Len(wallets) /\ ~reachedCap

\* line 305
perPage == Max(1, Min(PageSize, cap))

\* line 326 and 424: collected.slice(0, limit), then the inbound filter
LatestResult(coll) == InboundOf(SubSeq(coll, 1, Min(Len(coll), Max(0, cap))), wallet)

\* lines 261-263 and 269, 319-321 and 323: the page ends the fetch when its
\* status is not "1" (no data), it is empty or it is shorter than the page size
LastPage_EmptyOnly(arr, offset) == arr = <<>>

LastPage(arr, offset) == arr = <<>> \/ Len(arr) < offset

\* what a page request got: the explorer answers status "1" with the page's
\* records, or "No transactions found" (status "0", no records) past the data
Served(p, arr) ==
    [page |-> p, n |-> Len(arr), status |-> IF arr = <<>> THEN "nodata" ELSE "1"]

\* line 308: the loop condition of the latest fetch
LatestMore_Always(coll, limit) == TRUE

LatestMore(coll, limit) == Len(coll) < limit

\* lines 421-423, 305-308: latest mode, the fetch starts
BeginLatest ==
    /\ PairStarts
    /\ latestMode
    /\ page' = 1
    /\ collected' = <<>>
    /\ IF LatestMore(<<>>, cap)
       THEN pc' = "latest" /\ UNCHANGED internalInbound
       ELSE pc' = "records" /\ internalInbound' = LatestResult(<<>>)
    /\ visited' = Append(visited, <<chain, walletIdx>>)
    /\ pageLog' = <<>>
    /\ UNCHANGED <<svars, gvars, rvars, cfgvars, scoped, loopvars, chunkStartTs, chunkEndTs, startBlock,
                   endBlock, aggvars, exitCode, fetched, explorerReqs, failed,
                   priceReqs, statusErrors, origin, chunkLog>>

\* lines 308-326: one page request of fetchEtherscanLatestInternalLimited
LatestPage ==
    /\ pc = "latest"
    /\ LET arr == ExplorerLatest(orderArg, page, perPage)
           coll == collected \o arr
           stop == LastPage(arr, perPage) \/ ~LatestMore(coll, cap)
       IN /\ explorerReqs' = explorerReqs + 1
          /\ fetched' = fetched \cup Ids(arr)
          /\ pageLog' = Append(pageLog, Served(page, arr))
          /\ collected' = coll
          /\ IF stop
             THEN /\ internalInbound' = LatestResult(coll)
                  /\ pc' = "records"
                  /\ UNCHANGED page
             ELSE /\ page' = page + 1
                  /\ UNCHANGED <<pc, internalInbound>>
    /\ UNCHANGED <<svars, gvars, rvars, cfgvars, scoped, loopvars, chunkStartTs, chunkEndTs, startBlock,
                   endBlock, aggvars, exitCode, failed, priceReqs, statusErrors, visited, origin, chunkLog>>

\* lines 452-455: chunked mode, the chunk loop starts
BeginChunked ==
    /\ PairStarts
    /\ chunked
    /\ chunkStartTs' = START_TS
    /\ pc' = "chunk"
    /\ visited' = Append(visited, <<chain, walletIdx>>)
    /\ chunkLog' = <<>>
    /\ UNCHANGED <<svars, gvars, rvars, cfgvars, scoped, loopvars, page, collected, chunkEndTs, startBlock,
                   endBlock, internalInbound, aggvars, exitCode, fetched, explorerReqs, failed,
                   priceReqs, statusErrors, pageLog, origin>>

\* line 457
chunkEnd_Unclipped(cs, endTs, days) == cs + (days * daySeconds) - 1

chunkEnd(cs, endTs, days) == Min(endTs, cs + (days * daySeconds) - 1)

\* line 456
ChunkLoopCond_NoCap(cs, endTs, rc) == cs <= endTs

ChunkLoopCond(cs, endTs, rc) == cs <= endTs /\ ~rc

\* lines 456-460: a chunk starts, its two blocks are resolved
ChunkBegin ==
    /\ pc = "chunk"
    /\ ChunkLoopCond(chunkStartTs, END_TS, reachedCap)
    /\ LET ce == chunkEnd(chunkStartTs, END_TS, chunkDays)
       IN /\ chunkEndTs' = ce
          /\ chunkLog' = Append(chunkLog, [s |-> chunkStartTs, e |-> ce])
          /\ startBlock' = resolveBlockAtTime(chunkStartTs, "after")
          /\ endBlock' = resolveBlockAtTime(ce, "before")
    /\ page' = 1
    /\ collected' = <<>>
    /\ pageLog' = <<>>
    /\ pc' = "range"
    /\ UNCHANGED <<svars, gvars, rvars, cfgvars, scoped, loopvars, chunkStartTs, internalInbound, aggvars,
                   exitCode, fetched, explorerReqs, failed, priceReqs, statusErrors, visited, origin>>

\* line 456 false: the pair is finished, next wallet
ChunkExit ==
    /\ pc = "chunk"
    /\ ~ChunkLoopCond(chunkStartTs, END_TS, reachedCap)
    /\ walletIdx' = walletIdx + 1
    /\ pc' = "pair"
    /\ UNCHANGED <<svars, gvars, rvars, cfgvars, scoped, chainIdx, fetchvars, internalInbound, aggvars,
                   exitCode, fetched, explorerReqs, failed, obsvars>>

\* lines 491-495: single range, its two blocks are resolved
BeginSingle ==
    /\ PairStarts
    /\ ~latestMode /\ ~(chunkDays > 0)
    /\ startBlock' = resolveBlockAtTime(START_TS, "after")
    /\ endBlock' = resolveBlockAtTime(END_TS, "before")
    /\ page' = 1
    /\ collected' = <<>>
    /\ pageLog' = <<>>
    /\ visited' = Append(visited, <<chain, walletIdx>>)
    /\ pc' = "range"
    /\ UNCHANGED <<svars, gvars, rvars, cfgvars, scoped, loopvars, chunkStartTs, chunkEndTs, internalInbound,
                   aggvars, exitCode, fetched, explorerReqs, failed, priceReqs, statusErrors, origin, chunkLog>>

\* lines 248-272: one page request of fetchInternalByBlockRange
RangePage ==
    /\ pc = "range"
    /\ LET arr == ExplorerRange(startBlock, endBlock, page)
           out == IF arr = <<>> THEN collected ELSE collected \o InWindow(arr)
           stop == LastPage(arr, PageSize) \/ ~(page + 1 <= maxPages)
       IN /\ explorerReqs' = explorerReqs + 1
          /\ fetched' = fetched \cup Ids(arr)
          /\ pageLog' = Append(pageLog, Served(page, arr))
          /\ collected' = out
          /\ IF stop
             THEN /\ internalInbound' = InboundOf(out, wallet)
                  /\ pc' = "records"
                  /\ UNCHANGED page
             ELSE /\ page' = page + 1
                  /\ UNCHANGED <<pc, internalInbound>>
    /\ UNCHANGED <<svars, gvars, rvars, cfgvars, scoped, loopvars, chunkStartTs, chunkEndTs, startBlock,
                   endBlock, aggvars, exitCode, failed, priceReqs, statusErrors, visited, origin, chunkLog>>

\* upstream faults in one run: calls that throw, explorer answers with an error
\* status, price lookups without a price
MaxFaults == 2

PriceFailures == Cardinality({i \in 1..Len(priceReqs) : ~priceReqs[i].ok})

FaultAllowed == failed + statusErrors + PriceFailures < MaxFaults

\* lines 525-528: the catch logs the error and the wallet loop goes on
Caught_Rethrown == walletIdx' = walletIdx /\ pc' = "exit"

Caught == walletIdx' = walletIdx + 1 /\ pc' = "pair"

\* etherscanGet throws (a failure other than 429, or the 429 retries are
\* exhausted) inside a fetch; the catch of lines 525-527 ends the pair
ExplorerThrows ==
    /\ pc \in {"latest", "range"}
    /\ FaultAllowed
    /\ explorerReqs' = explorerReqs + 1
    /\ pageLog' = Append(pageLog, [page |-> page, n |-> 0, status |-> "throw"])
    /\ failed' = failed + 1
    /\ Caught
    /\ UNCHANGED <<svars, gvars, rvars, cfgvars, scoped, chainIdx, fetchvars, internalInbound, aggvars,
                   exitCode, fetched, priceReqs, statusErrors, visited, origin, chunkLog>>

\* the explorer answers with an error in the body (status "0", message NOTOK:
\* invalid key, rate limit): lines 261 and 319 break, the fetch returns what it
\* has (lines 272, 326)
ExplorerErrorStatus ==
    /\ pc \in {"latest", "range"}
    /\ FaultAllowed
    /\ explorerReqs' = explorerReqs + 1
    /\ pageLog' = Append(pageLog, [page |-> page, n |-> 0, status |-> "error"])
    /\ statusErrors' = statusErrors + 1
    /\ internalInbound' = IF pc = "latest" THEN LatestResult(collected)
                          ELSE InboundOf(collected, wallet)
    /\ pc' = "records"
    /\ UNCHANGED <<svars, gvars, rvars, cfgvars, scoped, loopvars, fetchvars, aggvars, exitCode,
                   fetched, failed, priceReqs, visited, origin, chunkLog>>

\* an RPC call of resolveBlockAtTime throws (lines 458-459, 493-494); the
\* catch of lines 525-527 ends the pair
ResolveThrows ==
    /\ \/ /\ PairStarts /\ ~latestMode /\ ~(chunkDays > 0)
          /\ visited' = Append(visited, <<chain, walletIdx>>)
       \/ /\ pc = "chunk" /\ ChunkLoopCond(chunkStartTs, END_TS, reachedCap)
          /\ UNCHANGED visited
    /\ FaultAllowed
    /\ failed' = failed + 1
    /\ Caught
    /\ UNCHANGED <<svars, gvars, rvars, cfgvars, scoped, chainIdx, fetchvars, internalInbound, aggvars,
                   exitCode, fetched, explorerReqs, priceReqs, statusErrors, pageLog, origin, chunkLog>>

(***************************************************************************)
(* Inbound run: the record loop (part_000:425-451, 462-488, 497-523)       *)
(***************************************************************************)
Prices == {3}

\* lines 277-291: getEthUsdOnDate; a cached day is answered without a request,
\* otherwise the oracle answers with a price or the lookup throws
PriceLookups(day) ==
    IF day \in DOMAIN priceCache
    THEN {[ok |-> TRUE, price |-> priceCache[day], req |-> FALSE]}
    ELSE {[ok |-> TRUE, price |-> p, req |-> TRUE] : p \in Prices}
         \cup (IF FaultAllowed THEN {[ok |-> FALSE, price |-> 0, req |-> TRUE]} ELSE {})

\* line 289
CachePut(cache, day, price) ==
    [d \in DOMAIN cache \cup {day} |-> IF d = day THEN price ELSE cache[d]]

\* lines 433-434: usd stays 0 when the lookup throws
UsdOf(eth, lookup) == IF lookup.ok THEN eth * lookup.price ELSE 0

\* line 438
DedupKey_CaseSensitive(c, w, hash) == <<c, w, hash>>

DedupKey(c, w, hash) == <<c, toLowerCase(w), toLowerCase(hash)>>

\* lines 441-443
AddTotals_UsdFromEth(tot, eth, usd) ==
    [eth |-> tot.eth + eth, usd |-> tot.usd + eth, written |-> tot.written + 1]

AddTotals(tot, eth, usd) ==
    [eth |-> tot.eth + eth, usd |-> tot.usd + usd, written |-> tot.written + 1]

\* lines 445-448: the row; an empty field is <<>>
RowOf_Filled(t, c, w, eth, usd) ==
    [kind |-> "row", date |-> Ts(t), chain |-> c, wallet |-> w, hash |-> t.hash, to |-> t.to,
     value_eth |-> eth, usd |-> usd,
     eth_usd |-> <<usd \div eth>>,
     usd_value |-> <<usd>>]

RowOf(t, c, w, eth, usd) ==
    [kind |-> "row", date |-> Ts(t), chain |-> c, wallet |-> w, hash |-> t.hash, to |-> t.to,
     value_eth |-> eth, usd |-> usd,
     eth_usd |-> IF usd # 0 THEN <<usd \div eth>> ELSE <<>>,
     usd_value |-> IF usd # 0 THEN <<usd>> ELSE <<>>]

\* line 450
CapHit_Past(w, c) == w > c

CapHit(w, c) == w >= c

\* lines 423-424, 460-461, 495-496: the list the record loop iterates
FetchResult == IF latestMode THEN LatestResult(collected) ELSE InboundOf(collected, wallet)

\* the position in that list of the record the loop is at
PosInFetch == Len(FetchResult) - Len(internalInbound) + 1

\* one iteration of the record loop
ProcessRecord ==
    /\ pc = "records"
    /\ internalInbound # <<>>
    /\ ~reachedCap
    /\ LET t == Head(internalInbound)
           eth == t.value
       IN /\ internalInbound' = Tail(internalInbound)
          /\ processed' = processed \cup {t.id}
          /\ IF eth <= 0
             THEN UNCHANGED <<totalEth, totalUsd, written, seen, reachedCap, priceCache,
                              file, emitted, priceReqs, origin>>
             ELSE \E lookup \in PriceLookups(DayOf(Ts(t))) :
                    LET usd == UsdOf(eth, lookup)
                        key == DedupKey(chain, wallet, t.hash)
                        tot == AddTotals([eth |-> totalEth, usd |-> totalUsd,
                                          written |-> written], eth, usd)
                        row == RowOf(t, chain, wallet, eth, usd)
                    IN /\ priceCache' = IF lookup.ok /\ lookup.req
                                        THEN CachePut(priceCache, DayOf(Ts(t)), lookup.price)
                                        ELSE priceCache
                       /\ priceReqs' = IF lookup.req
                                       THEN Append(priceReqs, [day |-> DayOf(Ts(t)), ok |-> lookup.ok,
                                                               dup |-> key \in seen])
                                       ELSE priceReqs
                       /\ IF key \in seen
                          THEN UNCHANGED <<totalEth, totalUsd, written, seen, reachedCap,
                                           file, emitted, origin>>
                          ELSE /\ seen' = seen \cup {key}
                               /\ origin' = Append(origin, [chain |-> chain, w |-> walletIdx,
                                                          fetch |-> explorerReqs, pos |-> PosInFetch])
                               /\ totalEth' = tot.eth
                               /\ totalUsd' = tot.usd
                               /\ written' = tot.written
                               /\ emitted' = Append(emitted, row)
                               /\ file' = IF dryRun THEN file ELSE Append(file, row)
                               /\ reachedCap' = (reachedCap \/ CapHit(tot.written, cap))
    /\ UNCHANGED <<svars, gvars, rvars, cfgvars, pc, scoped, loopvars, fetchvars, exitCode, fetched,
                   explorerReqs, failed, statusErrors, visited, pageLog, chunkLog>>

\* the record loop ends (exhausted or break); lines 489, 524-528
EndRecords ==
    /\ pc = "records"
    /\ internalInbound = <<>> \/ reachedCap
    /\ IF chunked
       THEN /\ chunkStartTs' = chunkEndTs + 1
            /\ pc' = "chunk"
            /\ UNCHANGED walletIdx
       ELSE /\ walletIdx' = walletIdx + 1
            /\ pc' = "pair"
            /\ UNCHANGED chunkStartTs
    /\ UNCHANGED <<svars, gvars, rvars, cfgvars, scoped, chainIdx, page, collected, chunkEndTs, startBlock,
                   endBlock, internalInbound, aggvars, exitCode, fetched, explorerReqs, failed,
                   obsvars>>

\* line 534
TotalRow == [kind |-> "total", value_eth |-> totalEth, usd_value |-> totalUsd]

\* lines 531-535: the output once the pair loop is left
Closed_NotOnCap == IF dryRun \/ reachedCap THEN file ELSE Append(file, TotalRow)

Closed == IF dryRun THEN file ELSE Append(file, TotalRow)

\* lines 531-537
Finish ==
    /\ pc = "pair"
    /\ chainIdx > Len(ChainNames)
    /\ file' = Closed
    /\ exitCode' = 0
    /\ pc' = "done"
    /\ UNCHANGED <<svars, gvars, rvars, cfgvars, scoped, loopvars, fetchvars, internalInbound, totalEth,
                   totalUsd, written, seen, reachedCap, priceCache, emitted, processed,
                   fetched, explorerReqs, failed, obsvars>>

(***************************************************************************)
(* Inbound run: initial states                                             *)
(***************************************************************************)
\* two blocks sharing a timestamp, strictly increasing timestamps, and a chain
\* whose latest block is older than the window
RunChains == {<<0, 10, 10, 20, 30>>, <<0, 10, 15, 20, 30>>, <<0, 5, 5, 5, 5>>}

\* no wallet, one wallet on both chains, two spellings of one wallet on one
\* chain, one wallet per chain
WalletConfigs == {<<>>, <<"0xA">>, <<"base:0xA", "base:0xa">>, <<"op:0xB", "base:0xA">>}

\* --limit=N as README documents it; 0 stands for no --limit
LimitArgs == {0, 1, 2}

\* line 342
MaxPagesOf(arg) == Max(1, IF arg # 0 THEN arg ELSE 100)
MaxPagesArgs == {0, 1}

\* <<latestMode, orderArg, chunkDays, --maxPages>>: order is read in latest
\* mode only, chunkDays and maxPages in the range modes only; the page limit
\* is lowered in the single-range mode
Strategies ==
    {<<TRUE, o, 0, 0>> : o \in {"newest", "oldest"}}
    \cup {<<FALSE, "newest", 0, mp>> : mp \in MaxPagesArgs}
    \cup {<<FALSE, "newest", 1, 0>>}

\* --dryRun=1 only keeps the file from being written (lines 409, 444, 531); it
\* is exercised in the script's default strategy: single range, default page limit
DryRuns(st) == IF st = <<FALSE, "newest", 0, 0>> THEN BOOLEAN ELSE {FALSE}

ResolverIdle ==
    /\ targetTs = 0 /\ resolver = "none" /\ closest = "before" /\ rpc = "idle"
    /\ low = 0 /\ high = 0 /\ probes = <<>> /\ result = -1

InitRun ==
    /\ blockTs \in RunChains
    /\ ResolverIdle
    /\ GateIdle
    /\ SnapshotIdle
    /\ ETHERSCAN_API_KEY \in BOOLEAN
    /\ RAW_WALLETS \in WalletConfigs
    /\ onlyWallet = "" /\ onlyChainArg = ""
    /\ cap \in {CapOf(l) : l \in LimitArgs}
    /\ \E st \in Strategies :
         /\ latestMode = st[1] /\ orderArg = st[2] /\ chunkDays = st[3]
         /\ maxPages = MaxPagesOf(st[4])
         /\ dryRun \in DryRuns(st)
    /\ START_TS = 10 /\ END_TS = 29
    /\ ledger \in {Tagged(l) : l \in Ledgers}
    /\ pc = "startup"
    /\ scoped = [base |-> <<>>, optimism |-> <<>>]
    /\ chainIdx = 1 /\ walletIdx = 1
    /\ page = 1 /\ collected = <<>>
    /\ chunkStartTs = 0 /\ chunkEndTs = 0 /\ startBlock = 0 /\ endBlock = 0
    /\ internalInbound = <<>>
    /\ totalEth = 0 /\ totalUsd = 0 /\ written = 0
    /\ seen = {} /\ reachedCap = FALSE
    /\ priceCache = <<>>
    /\ file = <<>>
    /\ exitCode = -1
    /\ emitted = <<>> /\ fetched = {} /\ processed = {} /\ explorerReqs = 0 /\ failed = 0
    /\ priceReqs = <<>> /\ statusErrors = 0 /\ visited = <<>> /\ pageLog = <<>> /\ origin = <<>>
    /\ chunkLog = <<>>

NextRun ==
    \/ StartupNoKey
    \/ StartupNoWallets
    \/ Startup
    \/ NextChain
    \/ CapBreak
    \/ BeginLatest
    \/ LatestPage
    \/ BeginChunked
    \/ ChunkBegin
    \/ ChunkExit
    \/ BeginSingle
    \/ RangePage
    \/ ExplorerThrows
    \/ ExplorerErrorStatus
    \/ ResolveThrows
    \/ ProcessRecord
    \/ EndRecords
    \/ Finish

SpecRun == InitRun /\ [][NextRun]_vars

(***************************************************************************)
(* Inbound run: wallet scope (WALLETS, --wallet, --chain)                  *)
(***************************************************************************)
\* the WALLETS entries README documents: plain, base:, op:, optimism:
WalletEntries == {"0xA", "base:0xA", "op:0xB", "optimism:0xA"}

\* WALLETS of up to two entries
ScopeConfigs == {<<>>} \cup {<<e>> : e \in WalletEntries}
                \cup {<<e, f>> : e, f \in WalletEntries}

\* --wallet and --chain as typed (line 336-337 lower-case them); "op" is not
\* a chain name the filter knows
WalletArgs == {"", "0xA", "0xb"}
ChainArgs == {"", "base", "optimism", "op"}

\* two records addressed to 0xa, none
ScopeLedgers == {<<>>, Tagged(Pick(AllRecords, {1, 3}))}

\* the run over every scope; one chain of blocks, the cap absent or 1, chunks
\* of one and of two days, a window of two days and one of two days and a half
InitScope ==
    /\ blockTs = <<0, 10, 15, 20, 30>>
    /\ ResolverIdle
    /\ GateIdle
    /\ SnapshotIdle
    /\ ETHERSCAN_API_KEY \in BOOLEAN
    /\ RAW_WALLETS \in ScopeConfigs
    /\ onlyWallet \in {toLowerCase(a) : a \in WalletArgs}
    /\ onlyChainArg \in {toLowerCase(a) : a \in ChainArgs}
    /\ cap \in {CapOf(l) : l \in {0, 1}}
    /\ \E st \in Strategies \cup {<<FALSE, "newest", 2, 0>>} :
         /\ latestMode = st[1] /\ orderArg = st[2] /\ chunkDays = st[3]
         /\ maxPages = MaxPagesOf(st[4])
         /\ dryRun \in DryRuns(st)
    /\ START_TS = 10 /\ END_TS \in {29, 34}
    /\ ledger \in ScopeLedgers
    /\ pc = "startup"
    /\ scoped = [base |-> <<>>, optimism |-> <<>>]
    /\ chainIdx = 1 /\ walletIdx = 1
    /\ page = 1 /\ collected = <<>>
    /\ chunkStartTs = 0 /\ chunkEndTs = 0 /\ startBlock = 0 /\ endBlock = 0
    /\ internalInbound = <<>>
    /\ totalEth = 0 /\ totalUsd = 0 /\ written = 0
    /\ seen = {} /\ reachedCap = FALSE
    /\ priceCache = <<>>
    /\ file = <<>>
    /\ exitCode = -1
    /\ emitted = <<>> /\ fetched = {} /\ processed = {} /\ explorerReqs = 0 /\ failed = 0
    /\ priceReqs = <<>> /\ statusErrors = 0 /\ visited = <<>> /\ pageLog = <<>> /\ origin = <<>>
    /\ chunkLog = <<>>

SpecScope == InitScope /\ [][NextRun]_vars

(***************************************************************************)
(* Request gates: etherscanGet, coingeckoGet, rpcPost (part_000:128-191)   *)
(***************************************************************************)
\* calls made in one behaviour
MaxCalls == 2

\* lines 130, 161, 175
minSpacingMs(c) ==
    CASE c = "explorer" -> 220
      [] c = "oracle" -> 6000
      [] c = "rpc" -> 1000

RECURSIVE Pow2(_)
Pow2(n) == IF n = 0 THEN 1 ELSE 2 * Pow2(n - 1)

\* the sleep after a failed attempt: line 147 with retries already
\* incremented, line 59 with baseMs 600 (line 169) or 500 (line 189)
Backoff_Linear(c, k) ==
    CASE c = "explorer" -> 500 * (k + 2)
      [] c = "oracle" -> 600 * (k + 1)
      [] c = "rpc" -> 500 * (k + 1)

Backoff(c, k) ==
    CASE c = "explorer" -> 500 * Pow2(k + 1)
      [] c = "oracle" -> 600 * Pow2(k)
      [] c = "rpc" -> 500 * Pow2(k)

\* lines 137 and 54: attempts per call
Tries == 3

\* response times: faster and slower than every spacing
Latencies == {50, 7000}

\* time the caller spends before the next call
IdleTimes == {0, 300}

\* lines 131-133, 162-164, 176-178: the remaining spacing to wait out
GateWait(t, last, c) ==
    IF t - last < minSpacingMs(c) THEN minSpacingMs(c) - (t - last) ELSE 0

\* a call arrives at a gate: lines 131-134, 162-165, 176-179
GateEnter ==
    /\ gpc = "idle"
    /\ calls < MaxCalls
    /\ \E c \in Classes : \E idle \in IdleTimes :
         LET t == now + idle
             admitted == t + GateWait(t, lastRequestTs[c], c)
         IN /\ now' = admitted
            /\ lastRequestTs' = [lastRequestTs EXCEPT ![c] = admitted]
            /\ gclass' = c
    /\ attempt' = 0
    /\ sent' = 0 /\ delays' = <<>> /\ response' = "none"
    /\ calls' = calls + 1
    /\ gpc' = "send"
    /\ UNCHANGED <<outcome, dispatched, rvars, mvars, svars>>

\* the request goes out: lines 139, 167, 183
Dispatch ==
    /\ gpc = "send"
    /\ dispatched' = [dispatched EXCEPT ![gclass] = [n |-> @.n + 1, at |-> now]]
    /\ sent' = sent + 1
    /\ gpc' = "inflight"
    /\ UNCHANGED <<now, lastRequestTs, gclass, attempt, calls, outcome, delays, response,
                   rvars, mvars, svars>>

\* the response arrives and is returned: lines 143, 56
RespondOk ==
    /\ gpc = "inflight"
    /\ \E lat \in Latencies : now' = now + lat
    /\ response' = "ok"
    /\ outcome' = "ok"
    /\ gpc' = "idle"
    /\ UNCHANGED <<lastRequestTs, gclass, attempt, calls, dispatched, sent, delays, rvars, mvars, svars>>

\* the failures a call retries: etherscanGet a 429 only (line 145), withRetry
\* whatever fn throws (line 57)
Retried(c) == IF c = "explorer" THEN {"rate"} ELSE {"rate", "transport"}

\* the attempt fails with a retried failure: the call sleeps the backoff, then
\* sends again or, the attempts used up, throws: lines 145-149 and 155, lines 57-62
RespondRetry ==
    /\ gpc = "inflight"
    /\ \E lat \in Latencies : now' = now + lat + Backoff(gclass, attempt)
    /\ response' \in Retried(gclass)
    /\ delays' = Append(delays, Backoff(gclass, attempt))
    /\ attempt' = attempt + 1
    /\ IF attempt + 1 < Tries
       THEN gpc' = "send" /\ UNCHANGED outcome
       ELSE gpc' = "idle" /\ outcome' = "error"
    /\ UNCHANGED <<lastRequestTs, gclass, calls, dispatched, sent, rvars, mvars, svars>>

\* etherscanGet rethrows every failure that is not a 429: lines 150-152
RespondThrow ==
    /\ gpc = "inflight"
    /\ gclass = "explorer"
    /\ \E lat \in Latencies : now' = now + lat
    /\ response' = "transport"
    /\ outcome' = "error"
    /\ gpc' = "idle"
    /\ UNCHANGED <<lastRequestTs, gclass, attempt, calls, dispatched, sent, delays, rvars, mvars, svars>>

\* Date.now() is far past every spacing when the script starts, and the
\* three lastRequestTs start at 0 (lines 128, 159, 173)
InitGate ==
    /\ now = 10000
    /\ lastRequestTs = [c \in Classes |-> 0]
    /\ gpc = "idle" /\ gclass = "explorer" /\ attempt = 0 /\ calls = 0 /\ outcome = "none"
    /\ dispatched = [c \in Classes |-> [n |-> 0, at |-> 0]]
    /\ sent = 0 /\ delays = <<>> /\ response = "none"
    /\ blockTs = <<0>> /\ ResolverIdle
    /\ RunIdle
    /\ SnapshotIdle

NextGate ==
    \/ GateEnter
    \/ Dispatch
    \/ RespondOk
    \/ RespondRetry
    \/ RespondThrow

SpecGate == InitGate /\ [][NextGate]_vars

(***************************************************************************)
(* Snapshot run: main() (snapshot.mts:221-371)                             *)
(***************************************************************************)
\* lines 23-39: scoped wallets per chain and the unscoped ones
RECURSIVE snapshotParseWallets(_)
snapshotParseWallets(raw) ==
    IF raw = <<>> THEN [base |-> <<>>, optimism |-> <<>>, unscoped |-> <<>>]
    ELSE LET rest == snapshotParseWallets(SubSeq(raw, 1, Len(raw) - 1))
             entry == raw[Len(raw)]
             maybeChain == split(entry)[1]
             maybeAddr == split(entry)[2]
             isOp == maybeChain = "optimism" \/ maybeChain = "op"
         IN IF maybeAddr # "" /\ (maybeChain = "base" \/ isOp)
            THEN IF isOp
                 THEN [rest EXCEPT !.optimism = Append(@, maybeAddr)]
                 ELSE [rest EXCEPT !.base = Append(@, maybeAddr)]
            ELSE [rest EXCEPT !.unscoped = Append(@, entry)]

\* line 235
anyScoped ==
    snapshotParseWallets(RAW_WALLETS).base # <<>> \/ snapshotParseWallets(RAW_WALLETS).optimism # <<>>

\* lines 295-298
walletsForChain(c) ==
    snapshotParseWallets(RAW_WALLETS)[c]
        \o (IF ~anyScoped THEN snapshotParseWallets(RAW_WALLETS).unscoped ELSE <<>>)

\* lines 49-72: the token addresses of a chain
TOKENS(c) == IF c = "base" THEN <<"usdcBase">> ELSE <<"usdcOp", "opToken">>

\* lines 75-81
COINGECKO_IDS_BY_ADDRESS(a) == IF a = "opToken" THEN "optimism" ELSE "usd-coin"

\* line 177: the date is DATE_ISO in every call, the key varies with the coin
cacheKey(coinId) == coinId

\* lines 222-242: a placeholder RPC URL or no wallet, exit 1
SnapshotStartupFail ==
    /\ spc = "startup"
    /\ ~RPC_OK \/ (~anyScoped /\ snapshotParseWallets(RAW_WALLETS).unscoped = <<>>)
    /\ sExit' = 1
    /\ spc' = "exit"
    /\ UNCHANGED <<RPC_OK, ethUsd, lookups, coinPriceCache, coinReqs, addressUsdMap,
                   sChainIdx, sWalletIdx, block, csvRows, outFile>>
    /\ UNCHANGED <<rvars, mvars, gvars>>

\* lines 222-245: the checks pass; getEthUsdOnDate answers with a price or
\* fails, which .catch turns into null
SnapshotStartup ==
    /\ spc = "startup"
    /\ RPC_OK /\ (anyScoped \/ snapshotParseWallets(RAW_WALLETS).unscoped # <<>>)
    /\ ethUsd' \in {<<p>> : p \in Prices} \cup {<<>>}
    /\ spc' = "prefetch"
    /\ UNCHANGED <<RPC_OK, lookups, coinPriceCache, coinReqs, addressUsdMap,
                   sChainIdx, sWalletIdx, block, csvRows, outFile, sExit>>
    /\ UNCHANGED <<rvars, mvars, gvars>>

\* the callbacks of the map at line 258 started so far: map() runs them in
\* array order, each up to its first pending await
Called == {i \in 1..Len(uniqueAddresses) : lookups[i] # "idle"}

\* lines 258-260, 177-190: the callback of the next address runs up to the
\* await of axios.get; a cached key returns at once
PrefetchCall ==
    /\ spc = "prefetch"
    /\ Cardinality(Called) < Len(uniqueAddresses)
    /\ LET i == Cardinality(Called) + 1
           key == cacheKey(COINGECKO_IDS_BY_ADDRESS(uniqueAddresses[i]))
       IN IF key \in DOMAIN coinPriceCache
          THEN /\ lookups' = [lookups EXCEPT ![i] = "done"]
               /\ addressUsdMap' = CachePut(addressUsdMap, uniqueAddresses[i], <<coinPriceCache[key]>>)
               /\ UNCHANGED coinReqs
          ELSE /\ lookups' = [lookups EXCEPT ![i] = "awaiting"]
               /\ coinReqs' = Append(coinReqs, key)
               /\ UNCHANGED addressUsdMap
    /\ UNCHANGED <<RPC_OK, spc, ethUsd, coinPriceCache, sChainIdx, sWalletIdx, block,
                   csvRows, outFile, sExit>>
    /\ UNCHANGED <<rvars, mvars, gvars>>

\* lines 191-199, 260-264: a pending request settles, in any order, once the
\* synchronous map has returned; a numeric price is cached, anything else is null
PrefetchRespond ==
    /\ spc = "prefetch"
    /\ Cardinality(Called) = Len(uniqueAddresses)
    /\ \E i \in 1..Len(uniqueAddresses) :
         /\ lookups[i] = "awaiting"
         /\ \E usd \in {<<p>> : p \in Prices} \cup {<<>>} :
              /\ coinPriceCache' =
                    IF usd # <<>>
                    THEN CachePut(coinPriceCache,
                                  cacheKey(COINGECKO_IDS_BY_ADDRESS(uniqueAddresses[i])), usd[1])
                    ELSE coinPriceCache
              /\ addressUsdMap' = CachePut(addressUsdMap, uniqueAddresses[i], usd)
         /\ lookups' = [lookups EXCEPT ![i] = "done"]
    /\ UNCHANGED <<RPC_OK, spc, ethUsd, coinReqs, sChainIdx, sWalletIdx, block,
                   csvRows, outFile, sExit>>
    /\ UNCHANGED <<rvars, mvars, gvars>>

\* lines 257, 269-283: Promise.all resolves, the header is pushed
PrefetchJoin ==
    /\ spc = "prefetch"
    /\ \A i \in 1..Len(uniqueAddresses) : lookups[i] = "done"
    /\ csvRows' = <<[kind |-> "header"]>>
    /\ sChainIdx' = 1
    /\ spc' = "chains"
    /\ UNCHANGED <<RPC_OK, ethUsd, lookups, coinPriceCache, coinReqs, addressUsdMap,
                   sWalletIdx, block, outFile, sExit>>
    /\ UNCHANGED <<rvars, mvars, gvars>>

\* lines 95-98
CHAINS == <<"base", "optimism">>

\* lines 123-151 as a function
RECURSIVE SnapshotSearch(_, _, _)
SnapshotSearch(lo, hi, target) ==
    IF lo < hi
    THEN LET mid == SnapshotMid(lo, hi)
             r == SnapshotProbe(lo, hi, mid, getBlock(mid), target)
         IN SnapshotSearch(r.low, r.high, target)
    ELSE lo

snapshotResolve(target) ==
    IF getBlock(Latest) <= target THEN Latest ELSE SnapshotSearch(0, Latest, target)

\* line 287: the chain is skipped
Skipped(c) == anyScoped /\ snapshotParseWallets(RAW_WALLETS)[c] = <<>>

\* line 287
SnapshotSkipChain ==
    /\ spc = "chains"
    /\ sChainIdx <= Len(CHAINS)
    /\ Skipped(CHAINS[sChainIdx])
    /\ sChainIdx' = sChainIdx + 1
    /\ UNCHANGED <<RPC_OK, spc, ethUsd, lookups, coinPriceCache, coinReqs, addressUsdMap,
                   sWalletIdx, block, csvRows, outFile, sExit>>
    /\ UNCHANGED <<rvars, mvars, gvars>>

\* lines 288-298: the chain's block is resolved, the wallet loop starts
SnapshotResolve ==
    /\ spc = "chains"
    /\ sChainIdx <= Len(CHAINS)
    /\ ~Skipped(CHAINS[sChainIdx])
    /\ block' = snapshotResolve(targetTs)
    /\ sWalletIdx' = 1
    /\ spc' = "wallets"
    /\ UNCHANGED <<RPC_OK, ethUsd, lookups, coinPriceCache, coinReqs, addressUsdMap,
                   sChainIdx, csvRows, outFile, sExit>>
    /\ UNCHANGED <<rvars, mvars, gvars>>

\* lines 312-326: the native row
NativeRow(c, w) ==
    [kind |-> "native", chain |-> c, block |-> block, wallet |-> w, symbol |-> "ETH",
     usd_price |-> ethUsd]

\* lines 327-361 stopping after the first token
TokenRows_FirstOnly(c, w) ==
    [k \in 1..1 |->
        [kind |-> "erc20", chain |-> c, block |-> block, wallet |-> w, symbol |-> TOKENS(c)[k],
         usd_price |-> addressUsdMap[TOKENS(c)[k]]]]

\* lines 346-360: the rows of the chain's tokens
TokenRows(c, w) ==
    [k \in 1..Len(TOKENS(c)) |->
        [kind |-> "erc20", chain |-> c, block |-> block, wallet |-> w, symbol |-> TOKENS(c)[k],
         usd_price |-> addressUsdMap[TOKENS(c)[k]]]]

\* lines 300-362: the balances of one wallet are read and its rows pushed
SnapshotWallet ==
    /\ spc = "wallets"
    /\ sWalletIdx <= Len(walletsForChain(CHAINS[sChainIdx]))
    /\ LET c == CHAINS[sChainIdx]
           w == walletsForChain(c)[sWalletIdx]
       IN csvRows' = csvRows \o <<NativeRow(c, w)>> \o TokenRows(c, w)
    /\ sWalletIdx' = sWalletIdx + 1
    /\ UNCHANGED <<RPC_OK, spc, ethUsd, lookups, coinPriceCache, coinReqs, addressUsdMap,
                   sChainIdx, block, outFile, sExit>>
    /\ UNCHANGED <<rvars, mvars, gvars>>

\* the wallets of the chain are exhausted
SnapshotNextChain ==
    /\ spc = "wallets"
    /\ sWalletIdx > Len(walletsForChain(CHAINS[sChainIdx]))
    /\ sChainIdx' = sChainIdx + 1
    /\ spc' = "chains"
    /\ UNCHANGED <<RPC_OK, ethUsd, lookups, coinPriceCache, coinReqs, addressUsdMap,
                   sWalletIdx, block, csvRows, outFile, sExit>>
    /\ UNCHANGED <<rvars, mvars, gvars>>

\* lines 290 and 373-376: the block resolution throws (getBlockNumber, or
\* getBlock after its retries); main().catch exits with 1
SnapshotResolveThrows ==
    /\ spc = "chains" /\ sChainIdx <= Len(CHAINS) /\ ~Skipped(CHAINS[sChainIdx])
    /\ sExit' = 1
    /\ spc' = "exit"
    /\ UNCHANGED <<RPC_OK, ethUsd, lookups, coinPriceCache, coinReqs, addressUsdMap,
                   sChainIdx, sWalletIdx, block, csvRows, outFile>>
    /\ UNCHANGED <<rvars, mvars, gvars>>

\* lines 303, 328 and 373-376: getBalance throws, or readContract throws
\* after the native row and some token rows were pushed; main().catch exits
\* with 1 and the accumulated rows are never written
SnapshotReadThrows ==
    /\ spc = "wallets" /\ sWalletIdx <= Len(walletsForChain(CHAINS[sChainIdx]))
    /\ LET c == CHAINS[sChainIdx]
           w == walletsForChain(c)[sWalletIdx]
           rows == <<NativeRow(c, w)>> \o TokenRows(c, w)
       IN \E n \in 0..(Len(rows) - 1) : csvRows' = csvRows \o SubSeq(rows, 1, n)
    /\ sExit' = 1
    /\ spc' = "exit"
    /\ UNCHANGED <<RPC_OK, ethUsd, lookups, coinPriceCache, coinReqs, addressUsdMap,
                   sChainIdx, sWalletIdx, block, outFile>>
    /\ UNCHANGED <<rvars, mvars, gvars>>

\* lines 365-370: the rows are written in one writeFile
SnapshotWrite ==
    /\ spc = "chains"
    /\ sChainIdx > Len(CHAINS)
    /\ outFile' = csvRows
    /\ sExit' = 0
    /\ spc' = "done"
    /\ UNCHANGED <<RPC_OK, ethUsd, lookups, coinPriceCache, coinReqs, addressUsdMap,
                   sChainIdx, sWalletIdx, block, csvRows>>
    /\ UNCHANGED <<rvars, mvars, gvars>>

\* line 41, scaled: the snapshot's target timestamp
SnapshotTargets == {5, 20}

\* the chains the snapshot's RPC may serve
SnapshotChains == {<<0, 10, 10, 20, 30>>, <<10, 10, 30>>}

InitSnapshot ==
    /\ blockTs \in SnapshotChains
    /\ targetTs \in SnapshotTargets
    /\ resolver = "none" /\ closest = "before" /\ rpc = "idle"
    /\ low = 0 /\ high = 0 /\ probes = <<>> /\ result = -1
    /\ GateIdle
    /\ \E raw \in ScopeConfigs :
         /\ pc = "idle"
         /\ RAW_WALLETS = raw
         /\ ETHERSCAN_API_KEY = TRUE /\ cap = 0
         /\ onlyWallet = "" /\ onlyChainArg = ""
         /\ latestMode = FALSE /\ orderArg = "newest" /\ chunkDays = 0 /\ maxPages = 1
         /\ dryRun = TRUE /\ START_TS = 0 /\ END_TS = 0 /\ ledger = <<>>
         /\ scoped = <<>> /\ chainIdx = 1 /\ walletIdx = 1
         /\ page = 1 /\ collected = <<>>
         /\ chunkStartTs = 0 /\ chunkEndTs = 0 /\ startBlock = 0 /\ endBlock = 0
         /\ internalInbound = <<>>
         /\ totalEth = 0 /\ totalUsd = 0 /\ written = 0
         /\ seen = {} /\ reachedCap = FALSE /\ priceCache = <<>> /\ file = <<>>
         /\ exitCode = -1
         /\ emitted = <<>> /\ fetched = {} /\ processed = {} /\ explorerReqs = 0 /\ failed = 0
         /\ priceReqs = <<>> /\ statusErrors = 0 /\ visited = <<>> /\ pageLog = <<>> /\ origin = <<>>
         /\ chunkLog = <<>>
    /\ RPC_OK \in BOOLEAN
    /\ spc = "startup"
    /\ ethUsd = <<>>
    /\ lookups = [i \in 1..Len(uniqueAddresses) |-> "idle"]
    /\ coinPriceCache = <<>> /\ coinReqs = <<>>
    /\ addressUsdMap = <<>>
    /\ sChainIdx = 1 /\ sWalletIdx = 1 /\ block = -1
    /\ csvRows = <<>> /\ outFile = <<>> /\ sExit = -1

NextSnapshot ==
    \/ SnapshotStartupFail
    \/ SnapshotStartup
    \/ PrefetchCall
    \/ PrefetchRespond
    \/ PrefetchJoin
    \/ SnapshotSkipChain
    \/ SnapshotResolve
    \/ SnapshotWallet
    \/ SnapshotNextChain
    \/ SnapshotResolveThrows
    \/ SnapshotReadThrows
    \/ SnapshotWrite

SpecSnapshot == InitSnapshot /\ [][NextSnapshot]_vars

(***************************************************************************)
(* Claims about the resolvers                                              *)
(***************************************************************************)
InboundDone(c) == resolver = "inbound" /\ closest = c /\ rpc = "done"

BlocksLE == {n \in 0..Latest : blockTs[n + 1] <= targetTs}
BlocksGE == {n \in 0..Latest : blockTs[n + 1] >= targetTs}
GreatestLE == IF BlocksLE = {} THEN 0 ELSE CHOOSE n \in BlocksLE : \A m \in BlocksLE : m <= n
SmallestGE == IF BlocksGE = {} THEN Latest ELSE CHOOSE n \in BlocksGE : \A m \in BlocksGE : n <= m

\* C1: on a non-decreasing chain, resolve(target, "before") returns the
\* greatest block whose timestamp is <= target (block 0 when none is).
C1_BeforeGreatest ==
    (InboundDone("before") /\ NonDecreasing) => result = GreatestLE

\* C2: on a non-decreasing chain, resolve(target, "after") returns the
\* smallest block whose timestamp is >= target (latest when none is).
C2_AfterSmallest ==
    (InboundDone("after") /\ NonDecreasing) => result = SmallestGE

Scenario == blockTs = <<0, 10, 10, 20, 30>>

\* C3: timestamps [0,10,10,20,30], resolve(10, "before") returns index 2.
C3_ScenarioBefore ==
    (Scenario /\ targetTs = 10 /\ InboundDone("before")) => result = 2

C3_Witness == Scenario /\ targetTs = 10 /\ InboundDone("before") /\ result = 2

\* C4 (as stated): timestamps [0,10,10,20,30], resolve(15, "after") returns index 4.
C4_ScenarioAfterOriginal ==
    (Scenario /\ targetTs = 15 /\ InboundDone("after")) => result = 4

\* C4 (amended): timestamps [0,10,10,20,30], resolve(15, "after") returns
\* index 3, the smallest block whose timestamp (20) is >= 15.
C4_ScenarioAfter ==
    (Scenario /\ targetTs = 15 /\ InboundDone("after")) => result = 3

C4_Witness == Scenario /\ targetTs = 15 /\ InboundDone("after") /\ result = 3 /\ Len(probes) = 3

\* C5: in both resolvers every loop iteration that does not return strictly
\* decreases high - low, every resolve call returns, and a call fetches at
\* most ceil(log2(latest + 1)) + 1 blocks.
C5_Shrinks ==
    (rpc = "loop" /\ rpc' = "loop") => (high' - low' < high - low)

C5_Converges ==
    /\ [][C5_Shrinks]_vars
    /\ [](Len(probes) <= CeilLog2(Latest + 1) + 1)
    /\ <>(rpc = "done")

C5_Witness ==
    /\ rpc = "done" /\ Len(blockTs) >= 4
    /\ Len(probes) = CeilLog2(Latest + 1) + 1
    /\ \E i \in 1..Latest : blockTs[i] = blockTs[i + 1]

(***************************************************************************)
(* Claims about the inbound run                                            *)
(***************************************************************************)
RECURSIVE SumOf(_, _)
SumOf(rows, field) ==
    IF rows = <<>> THEN 0 ELSE rows[1][field] + SumOf(Tail(rows), field)

RowKey(r) == <<r.chain, toLowerCase(r.wallet), toLowerCase(r.hash)>>

DataRows(lines) == SelectSeq(lines, LAMBDA l : l.kind = "row")

Unique(rows) ==
    \A i \in 1..Len(rows) : \A j \in 1..Len(rows) : i # j => RowKey(rows[i]) # RowKey(rows[j])

\* C6: no two emitted rows share the dedup key (chain, lowercased wallet,
\* lowercased hash), in the accepted rows and in the lines written to the file.
C6_DedupUnique == Unique(emitted) /\ Unique(DataRows(file))

\* a run in which two positive inbound records were looked at and only one row came out
C6_Witness ==
    /\ pc = "done" /\ ~reachedCap /\ ~dryRun
    /\ Len(ledger) = 2 /\ ledger[1].value > 0 /\ ledger[2].value > 0
    /\ toLowerCase(ledger[1].hash) = toLowerCase(ledger[2].hash)
    /\ ledger[1].hash # ledger[2].hash
    /\ processed = {1, 2}
    /\ Len(emitted) = 1

\* C7: after each record the running totals are the sums over the rows
\* emitted so far: totalEth of their values, totalUsd of their usd values
\* (0 for a row without a price), written their number.
C7_TotalsAreSums ==
    /\ totalEth = SumOf(emitted, "value_eth")
    /\ totalUsd = SumOf(emitted, "usd")
    /\ written = Len(emitted)
    /\ ~dryRun => DataRows(file) = emitted

C7_Witness ==
    /\ Len(emitted) = 2
    /\ emitted[1].usd_value = <<>> /\ emitted[2].usd_value # <<>>
    /\ totalUsd = emitted[2].usd /\ totalUsd > 0
    /\ totalEth = emitted[1].value_eth + emitted[2].value_eth

\* C8: the number of emitted rows never exceeds the cap, in the three strategies.
C8_RowsWithinCap ==
    /\ Len(emitted) <= cap
    /\ written <= cap
    /\ Len(DataRows(file)) <= cap

\* the cap is hit in a range mode while fetched records are still waiting
C8_Witness ==
    /\ reachedCap /\ written = cap /\ internalInbound # <<>> /\ ~latestMode

CapReached == written >= cap

Qualifies(t, w) ==
    /\ toLowerCase(t.to) = toLowerCase(w)
    /\ t.value > 0
    /\ latestMode \/ (Ts(t) >= START_TS /\ Ts(t) <= END_TS)

FirstWallet ==
    LET s == parseWallets(RAW_WALLETS)
    IN IF s.base # <<>> THEN s.base[1] ELSE s.optimism[1]

\* cap = 2 and exactly three qualifying records with distinct keys are available
CapScenario ==
    /\ cap = 2
    /\ ETHERSCAN_API_KEY /\ RAW_WALLETS # <<>>
    /\ Len(ledger) = 3
    /\ \A i \in 1..3 : Qualifies(ledger[i], FirstWallet)
    /\ \A i \in 1..3 : \A j \in 1..3 :
          i # j => toLowerCase(ledger[i].hash) # toLowerCase(ledger[j].hash)

\* once the counter has reached the cap nothing more is requested from the
\* explorer and no record is looked at or emitted
C9_StopStep ==
    CapReached => /\ explorerReqs' = explorerReqs
                  /\ fetched' = fetched
                  /\ processed' = processed
                  /\ emitted' = emitted
                  /\ written' = written

C10_Spacing ==
    [][\A c \in Classes :
         (dispatched'[c].n = dispatched[c].n + 1 /\ dispatched[c].n > 0)
            => dispatched'[c].at - dispatched[c].at >= minSpacingMs(c)]_vars

Failures == {"rate", "transport"}

\* C11: a gated call sends its request at most 3 times; a successful attempt
\* ends the call with its result and nothing more is sent; each backoff sleep
\* is double the one before; after the third failed attempt the call has
\* ended with an error.
C11_BoundedRetry ==
    /\ sent <= Tries
    /\ gpc \in {"send", "inflight"} => response # "ok"
    /\ (gpc = "idle" /\ response = "ok") => outcome = "ok"
    /\ \A i \in 2..Len(delays) : delays[i] = 2 * delays[i - 1]
    /\ (sent = Tries /\ attempt = Tries) => (gpc = "idle" /\ outcome = "error")

C11_Witness ==
    /\ gclass = "oracle" /\ gpc = "idle" /\ calls = 2
    /\ sent = 3 /\ outcome = "error" /\ delays = <<600, 1200, 2400>>

\* C12: an explorer call that meets a timeout or a server/transport error is
\* retried like a 429: it ends with an error only after the third attempt.
C12_TransportRetried ==
    (gclass = "explorer" /\ gpc = "idle" /\ outcome = "error" /\ response = "transport")
        => sent = Tries

(***************************************************************************)
(* Claims about the inbound run: upstream failures                         *)
(***************************************************************************)
Last(q) == q[Len(q)]

\* C13: at most one upstream price request is issued per calendar day in one
\* run, whether the day's first lookup gave a price or none.
C13_OneRequestPerDay ==
    \A i \in 1..Len(priceReqs) : \A j \in 1..Len(priceReqs) :
        i # j => priceReqs[i].day # priceReqs[j].day

\* C14: an explorer response carrying an error status ends the pair in the
\* per-pair handler; the fetch does not return what it has as if the data had ended.
C14_ErrorStatusSurfaces ==
    [][statusErrors' # statusErrors => (failed' = failed + 1 /\ pc' = "pair")]_vars

\* the (chain, wallet) pairs in iteration order
AllPairs ==
    [i \in 1..(Len(scoped.base) + Len(scoped.optimism)) |->
        IF i <= Len(scoped.base) THEN <<"base", i>> ELSE <<"optimism", i - Len(scoped.base)>>]

IsPrefix(a, b) == Len(a) <= Len(b) /\ a = SubSeq(b, 1, Len(a))

\* C15: a failure of the resolver or the fetcher for one pair is caught and
\* ends that pair only: the run never exits because of it, the wallet loop
\* goes on, the pairs are entered in iteration order, all of them unless the
\* cap was reached, and the run ends with exit code 0 and the TOTAL line
\* written, however many pairs failed.
C15_FailureIsolated ==
    /\ pc = "exit" => (failed = 0 /\ visited = <<>>)
    /\ failed > 0 => exitCode \in {-1, 0}
    /\ pc \notin {"startup", "exit", "idle"} => IsPrefix(visited, AllPairs)
    /\ pc = "pair" => ENABLED NextRun
    /\ pc = "done" =>
          /\ exitCode = 0
          /\ ~reachedCap => visited = AllPairs
          /\ ~dryRun => Last(file).kind = "total"

\* every pair of the run failed, and the run ended normally
C15_Witness ==
    /\ pc = "done" /\ exitCode = 0 /\ ~dryRun
    /\ failed = 2 /\ Len(AllPairs) = 2 /\ visited = AllPairs
    /\ emitted = <<>> /\ Last(file).kind = "total"

\* C16: when the lookup for a record's day gives no price, the record (not a
\* duplicate) is emitted as a row with its value and with empty unit-price
\* and usd fields, the value total grows by the record's value, the usd total
\* stays, and the record loop goes on.
C16_Step ==
    LET t == Head(internalInbound)
        noPrice == /\ Len(priceReqs') = Len(priceReqs) + 1
                   /\ ~Last(priceReqs').ok
        fresh == \A i \in 1..Len(emitted) :
                    RowKey(emitted[i]) # <<chain, toLowerCase(wallet), toLowerCase(t.hash)>>
        row == Last(emitted')
    IN (pc = "records" /\ noPrice /\ fresh) =>
          /\ Len(emitted') = Len(emitted) + 1
          /\ row.hash = t.hash /\ row.value_eth = t.value /\ row.value_eth > 0
          /\ row.eth_usd = <<>> /\ row.usd_value = <<>>
          /\ ~dryRun => file' = Append(file, row)
          /\ totalEth' = totalEth + t.value
          /\ totalUsd' = totalUsd
          /\ written' = written + 1
          /\ pc' = "records" /\ internalInbound' = Tail(internalInbound)
          /\ failed' = failed /\ exitCode' = exitCode
          /\ reachedCap' = (written' >= cap)

C16_NoPriceRow == [][C16_Step]_vars

\* two records without a price, both emitted
C16_Witness ==
    /\ Len(priceReqs) = 2 /\ ~priceReqs[1].ok /\ ~priceReqs[2].ok
    /\ Len(emitted) = 2 /\ ~dryRun /\ DataRows(file) = emitted
    /\ emitted[1].eth_usd = <<>> /\ emitted[2].usd_value = <<>>
    /\ totalUsd = 0 /\ totalEth = emitted[1].value_eth + emitted[2].value_eth

(***************************************************************************)
(* Claims about the inbound run: the fetchers and the order of the rows    *)
(***************************************************************************)
\* the records of pages 1..n of the running block-range query, as the explorer serves them
RECURSIVE PagesServed(_)
PagesServed(n) ==
    IF n = 0 THEN <<>> ELSE PagesServed(n - 1) \o ExplorerRange(startBlock, endBlock, n)

InsideWindow(ts) == START_TS <= ts /\ ts <= END_TS

RangeFetch == ~latestMode /\ pc \in {"range", "records"}

FullPage(e, size) == e.status = "1" /\ e.n = size

C17_Pages ==
    RangeFetch =>
        /\ \A i \in 1..Len(pageLog) : pageLog[i].page = i
        /\ Len(pageLog) <= maxPages
        /\ \A i \in 1..(Len(pageLog) - 1) : FullPage(pageLog[i], PageSize)
        /\ (pc = "range" /\ pageLog # <<>>) =>
              (FullPage(Last(pageLog), PageSize) /\ Len(pageLog) < maxPages)
        /\ (pc = "records" /\ Last(pageLog).status = "nodata") =>
              collected = SelectSeq(PagesServed(Len(pageLog) - 1), LAMBDA t : InsideWindow(Ts(t)))

C17_NoDataStep ==
    (pc = "range" /\ Len(pageLog') = Len(pageLog) + 1 /\ Last(pageLog').status = "nodata") =>
        /\ pc' = "records"
        /\ failed' = failed
        /\ collected' = collected
        /\ internalInbound' = InboundOf(collected, wallet)

\* C17: fetchInternalByBlockRange requests pages 1, 2, ... in ascending
\* index, requests nothing after a page that is short, empty or has a
\* no-data status, never requests more than maxPages pages, and a no-data
\* status ends the fetch without an error, the records accumulated so far kept.
C17_RangePaging == []C17_Pages /\ [][C17_NoDataStep]_vars

\* a full page, then "no transactions found"
C17_Witness ==
    /\ RangeFetch /\ pc = "records" /\ maxPages > 1
    /\ Len(pageLog) = 2 /\ FullPage(pageLog[1], PageSize) /\ pageLog[2].status = "nodata"
    /\ Len(collected) = PageSize

\* C18: every record the block-range fetcher returns has its timestamp in
\* [START_TS, END_TS], so every row of the single-range and the chunked mode has.
C18_InsideWindow ==
    ~latestMode =>
        /\ \A i \in 1..Len(collected) : InsideWindow(Ts(collected[i]))
        /\ \A i \in 1..Len(internalInbound) : InsideWindow(Ts(internalInbound[i]))
        /\ \A i \in 1..Len(emitted) : InsideWindow(emitted[i].date)

\* the explorer served records of a block outside the window and none was kept
C18_Witness ==
    /\ RangeFetch /\ pc = "records"
    /\ pageLog # <<>> /\ pageLog[1].n > 0 /\ fetched # {}
    /\ \E i \in fetched : ~InsideWindow(Ts(ledger[i]))
    /\ collected = <<>>

\* the explorer's list in the requested order
Upstream == IF orderArg = "newest" THEN Reverse(ledger) ELSE ledger

LatestFetch == latestMode /\ pc \in {"latest", "records"}

\* the page was full and the records accumulated with it are fewer than the limit
GoesOn(i) == pageLog[i].status = "1" /\ pageLog[i].n = perPage /\ i * perPage < cap

\* C19: fetchEtherscanLatestInternalLimited with limit N >= 1 requests the
\* pages in ascending index, requests nothing more once N records are
\* accumulated or a page was short or empty, and, the explorer having
\* answered every request with its records or with no-data, returns the
\* first min(N, available) records in upstream order.
C19_LatestFirstN ==
    LatestFetch =>
        /\ \A i \in 1..Len(pageLog) : pageLog[i].page = i
        /\ \A i \in 1..(Len(pageLog) - 1) : GoesOn(i)
        /\ (pc = "latest" /\ pageLog # <<>>) => GoesOn(Len(pageLog))
        /\ (pc = "records" /\ \A i \in 1..Len(pageLog) : pageLog[i].status \in {"1", "nodata"}) =>
              SubSeq(collected, 1, Min(Len(collected), cap))
                  = SubSeq(Upstream, 1, Min(cap, Len(ledger)))

\* three records over two pages, newest first
C19_Witness ==
    /\ LatestFetch /\ pc = "records" /\ orderArg = "newest" /\ cap > Len(ledger)
    /\ Len(ledger) = 3 /\ Len(pageLog) = 2 /\ pageLog[2].n = 1
    /\ collected = <<ledger[3], ledger[2], ledger[1]>>

ChainRank(c) == IF c = "base" THEN 1 ELSE 2

\* a comes before b: earlier pair, or same pair and earlier fetch, or same
\* fetch and earlier position in its result
ComesBefore(a, b) ==
    \/ ChainRank(a.chain) < ChainRank(b.chain)
    \/ a.chain = b.chain /\ a.w < b.w
    \/ a.chain = b.chain /\ a.w = b.w /\ a.fetch < b.fetch
    \/ a.chain = b.chain /\ a.w = b.w /\ a.fetch = b.fetch /\ a.pos < b.pos

\* C20: the rows are emitted in pair order (base before optimism, wallets
\* in configured order) and, within a pair, in fetch order; each row is in
\* the output as soon as its record is accepted, before the next record is looked at.
C20_EmitOrder ==
    /\ Len(origin) = Len(emitted)
    /\ \A i \in 1..Len(origin) :
          /\ emitted[i].chain = origin[i].chain
          /\ emitted[i].wallet = scoped[origin[i].chain][origin[i].w]
    /\ \A i \in 1..Len(origin) : \A j \in (i + 1)..Len(origin) : ComesBefore(origin[i], origin[j])
    /\ ~dryRun => DataRows(file) = emitted

\* two rows of one fetch on base, then a row on optimism
C20_Witness ==
    /\ Len(origin) = 3 /\ ~dryRun /\ Len(DataRows(file)) = 3
    /\ origin[1].chain = "base" /\ origin[2].chain = "base"
    /\ origin[1].fetch = origin[2].fetch /\ origin[1].pos < origin[2].pos
    /\ origin[3].chain = "optimism"

\* the wallets of chain c that pass --wallet and --chain, by position in
\* the parsed list
KeptOn(c) ==
    {i \in 1..Len(parseWallets(RAW_WALLETS)[c]) :
        /\ onlyWallet = "" \/ toLowerCase(parseWallets(RAW_WALLETS)[c][i]) = onlyWallet
        /\ onlyChainArg \in {"base", "optimism"} => onlyChainArg = c}

NoWalletLeft == KeptOn("base") = {} /\ KeptOn("optimism") = {}

\* nothing was requested upstream, no pair was entered, no line was written
NothingDone ==
    /\ explorerReqs = 0 /\ priceReqs = <<>> /\ pageLog = <<>>
    /\ failed = 0 /\ statusErrors = 0 /\ visited = <<>>
    /\ file = <<>> /\ emitted = <<>>

\* C21: when the explorer key is missing, or no wallet is left after the
\* --wallet and --chain filters, the run's only step is the exit with code 1:
\* no upstream request is issued, no pair is entered and nothing is written
\* to the output.
C21_FatalAtStartup ==
    (~ETHERSCAN_API_KEY \/ NoWalletLeft) =>
        /\ pc \in {"startup", "exit"}
        /\ NothingDone
        /\ pc = "startup" => ENABLED (StartupNoKey \/ StartupNoWallets) /\ ~ENABLED Startup
        /\ pc = "exit" => exitCode = 1

\* the key is set, WALLETS names wallets, and the filters leave none of them
C21_Witness ==
    /\ pc = "exit" /\ exitCode = 1 /\ ETHERSCAN_API_KEY
    /\ RAW_WALLETS = <<"op:0xB", "base:0xA">>
    /\ onlyWallet = "0xa" /\ onlyChainArg = "optimism"
    /\ NothingDone

Started == pc \notin {"startup", "exit", "idle"}

\* C22: a run past the startup checks that is not a dry run writes the
\* header first, then data rows only; when it ends, the one TOTAL row is
\* the last line and carries the sums of value and usd over the rows
\* written; the run ends only after the last pair, and then always with the
\* TOTAL row, whatever failed and whether or not the cap was reached.
C22_TotalLast ==
    (Started /\ ~dryRun) =>
        /\ file # <<>> /\ file[1].kind = "header"
        /\ \A i \in 2..Len(file) : file[i].kind = (IF pc = "done" /\ i = Len(file) THEN "total" ELSE "row")
        /\ pc = "done" =>
              /\ Len(file) >= 2 /\ chainIdx > Len(ChainNames) /\ exitCode = 0
              /\ Last(file).value_eth = SumOf(DataRows(file), "value_eth")
              /\ Last(file).usd_value = SumOf(DataRows(file), "usd")
        /\ (pc = "pair" /\ chainIdx > Len(ChainNames)) => ENABLED Finish

\* a pair failed, the cap was reached, one row and the TOTAL row are written
C22_Witness ==
    /\ pc = "done" /\ ~dryRun /\ failed > 0 /\ reachedCap
    /\ Len(file) = 3 /\ file[2].kind = "row" /\ file[3].kind = "total"
    /\ file[3].value_eth = file[2].value_eth /\ file[3].value_eth > 0

(***************************************************************************)
(* Claims about the wallet scope                                           *)
(***************************************************************************)
Entries == {RAW_WALLETS[i] : i \in 1..Len(RAW_WALLETS)}

\* the chain an entry names, "" when it names none
ScopeOf(entry) ==
    CASE split(entry)[2] = "" -> ""
      [] split(entry)[1] = "base" -> "base"
      [] split(entry)[1] \in {"optimism", "op"} -> "optimism"
      [] OTHER -> ""

AddressOf(entry) == IF ScopeOf(entry) = "" THEN entry ELSE split(entry)[2]

AnyScoped == \E e \in Entries : ScopeOf(e) # ""

\* the wallets README has queried on chain c
Documented(c) ==
    {AddressOf(e) : e \in {f \in Entries : ScopeOf(f) = c \/ (ScopeOf(f) = "" /\ ~AnyScoped)}}

\* the wallets whose pair was entered on chain c
Queried(c) == {scoped[c][visited[i][2]] : i \in {j \in 1..Len(visited) : visited[j][1] = c}}

NoFilter == onlyWallet = "" /\ onlyChainArg \notin {"base", "optimism"}

\* C23: a wallet is queried on a chain only if its WALLETS entry names that
\* chain (base:, or optimism:/op:), or names none while no entry of WALLETS
\* names a chain; a run without --wallet/--chain that ends below the cap has
\* queried exactly these wallets on each chain.
C23_ScopedOnly ==
    Started =>
        /\ \A c \in {"base", "optimism"} : Queried(c) \subseteq Documented(c)
        /\ (pc = "done" /\ ~reachedCap /\ NoFilter) =>
              \A c \in {"base", "optimism"} : Queried(c) = Documented(c)

(***************************************************************************)
(* Claims about the resolvers: range of results and probes                 *)
(***************************************************************************)
\* C24: the block number the inbound resolver returns lies in 0..latest, for
\* every sequence of block timestamps, target and tie-break.
C24_ResultInRange ==
    (resolver = "inbound" /\ rpc = "done") => result \in 0..Latest

\* "after" with a target past the latest block: the search leaves the
\* interval at latest + 1 and the adjustment returns latest
C24_Witness ==
    /\ resolver = "inbound" /\ rpc = "done" /\ closest = "after"
    /\ Latest >= 2 /\ low = Latest + 1 /\ result = Latest
    /\ targetTs > blockTs[Latest + 1]

\* C28: every block the inbound resolver fetches, the boundary-adjustment
\* fetch included, is a block of 0..latest.
C28_ProbesInRange ==
    resolver = "inbound" => \A i \in 1..Len(probes) : probes[i] \in 0..Latest

\* C26: no price request is issued for a record whose dedup key was already
\* seen in the run: the duplicate is skipped before the price lookup.
C26_NoPriceForDuplicate ==
    \A i \in 1..Len(priceReqs) : ~priceReqs[i].dup

(***************************************************************************)
(* Claims about the range modes: completeness                              *)
(***************************************************************************)
\* the rows emitted for a wallet of a chain and a hash, by dedup key
RowsFor(c, w, h) ==
    {i \in 1..Len(emitted) : RowKey(emitted[i]) = <<c, toLowerCase(w), toLowerCase(h)>>}

\* the run ended in a range mode, nothing upstream failed, the cap was not
\* reached and the page limit is beyond any fetch
CleanRangeRun ==
    /\ pc = "done" /\ ~latestMode
    /\ failed = 0 /\ statusErrors = 0 /\ PriceFailures = 0
    /\ ~reachedCap /\ maxPages > Len(ledger)

\* C25: in the single-range and the day-chunked mode, on a non-decreasing
\* chain, a run without failure, below the cap and below the page limit has
\* emitted exactly one row for every (chain, wallet, hash) of an explorer
\* record addressed to the wallet with positive value and timestamp in
\* [START_TS, END_TS].
C25_NoneMissed ==
    (CleanRangeRun /\ NonDecreasing) =>
        \A c \in {"base", "optimism"} : \A k \in 1..Len(scoped[c]) : \A i \in 1..Len(ledger) :
            Qualifies(ledger[i], scoped[c][k]) =>
                Cardinality(RowsFor(c, scoped[c][k], ledger[i].hash)) = 1

C29_OneRequestPerKey ==
    \A i \in 1..Len(coinReqs) : \A j \in 1..Len(coinReqs) : i # j => coinReqs[i] # coinReqs[j]

(***************************************************************************)
(* Claims about the chunk windows                                          *)
(***************************************************************************)
chunkSeconds == chunkDays * daySeconds

\* ceil((END_TS - START_TS + 1) / (chunkDays * daySeconds))
ChunkCount == (END_TS - START_TS + 1 + chunkSeconds - 1) \div chunkSeconds

\* C30: in day-chunked mode the windows of a pair's chunks are non-empty and
\* lie in [START_TS, END_TS]; the first starts at START_TS and each next one
\* starts right after the one before (so they are disjoint and contiguous);
\* there are at most ceil((END_TS - START_TS + 1) / (chunkDays * daySeconds))
\* of them; once the loop has run past END_TS their number is exactly that
\* and the last one ends at END_TS, and the loop is left.
C30_ChunkWindows ==
    chunked =>
        /\ \A i \in 1..Len(chunkLog) :
              /\ chunkLog[i].s <= chunkLog[i].e
              /\ START_TS <= chunkLog[i].s /\ chunkLog[i].e <= END_TS
              /\ chunkLog[i].s = (IF i = 1 THEN START_TS ELSE chunkLog[i - 1].e + 1)
        /\ Len(chunkLog) <= ChunkCount
        /\ chunkStartTs > END_TS =>
              /\ Len(chunkLog) = ChunkCount
              /\ Last(chunkLog).e = END_TS
              /\ chunkStartTs = END_TS + 1
              /\ pc = "chunk" => (ENABLED ChunkExit /\ ~ENABLED ChunkBegin)

\* three chunks of one day over a window of two days and a half, the last one
\* cut at END_TS; the loop has ended without the cap being reached
C30_Witness ==
    /\ chunked /\ chunkDays = 1 /\ ~reachedCap /\ failed = 0 /\ statusErrors = 0
    /\ pc = "pair" /\ chunkStartTs = END_TS + 1
    /\ chunkLog = <<[s |-> 10, e |-> 19], [s |-> 20, e |-> 29], [s |-> 30, e |-> 34]>>

(***************************************************************************)
(* Claims about the rows: inbound and positive                             *)
(***************************************************************************)
\* the ledger positions of the records that are not addressed to wallet w
\* or carry no positive value
Rejected(w) ==
    {i \in 1..Len(ledger) : toLowerCase(ledger[i].to) # toLowerCase(w) \/ ledger[i].value <= 0}

\* C31: every row emitted by the inbound run has a 'to' address equal to the
\* pair's wallet up to case and a value greater than 0, in the accepted rows
\* and in the file; the totals and the row counter are the sums and the
\* number of these rows, so a record failing either test adds nothing to them.
C31_InboundPositive ==
    /\ \A i \in 1..Len(emitted) :
          /\ toLowerCase(emitted[i].to) = toLowerCase(emitted[i].wallet)
          /\ emitted[i].value_eth > 0
    /\ \A i \in 1..Len(DataRows(file)) :
          /\ toLowerCase(DataRows(file)[i].to) = toLowerCase(DataRows(file)[i].wallet)
          /\ DataRows(file)[i].value_eth > 0
    /\ written = Len(emitted)
    /\ totalEth = SumOf(emitted, "value_eth")
    /\ totalUsd = SumOf(emitted, "usd")

\* the explorer served a record for another address and a zero-value record
\* next to a qualifying one; the zero-value record went through the record
\* loop; the qualifying record gave one row on each chain
C31_Witness ==
    /\ pc = "done" /\ RAW_WALLETS = <<"0xA">> /\ onlyChainArg = "" /\ ~dryRun
    /\ Len(ledger) = 3 /\ fetched = {1, 2, 3}
    /\ \E i \in fetched : toLowerCase(ledger[i].to) # "0xa"
    /\ \E i \in processed : ledger[i].value = 0
    /\ Cardinality(Rejected("0xA")) = 2
    /\ Len(emitted) = 2 /\ emitted[1].hash = emitted[2].hash /\ emitted[1].chain # emitted[2].chain
    /\ written = 2 /\ totalEth = 2 * emitted[1].value_eth

(***************************************************************************)
(* Claims about the snapshot's file                                        *)
(***************************************************************************)
\* the number of WALLETS entries that select address w on chain c
Selections(c, w) ==
    Cardinality({i \in 1..Len(RAW_WALLETS) :
        /\ AddressOf(RAW_WALLETS[i]) = w
        /\ ScopeOf(RAW_WALLETS[i]) = c \/ (ScopeOf(RAW_WALLETS[i]) = "" /\ ~AnyScoped)})

\* the number of lines of the file of a kind, chain, wallet and symbol
Lines(k, c, w, sym) ==
    Cardinality({i \in 1..Len(outFile) :
        /\ outFile[i].kind = k /\ outFile[i].chain = c
        /\ outFile[i].wallet = w /\ outFile[i].symbol = sym})

Addresses == {AddressOf(e) : e \in Entries}

PairCount(c) == Cardinality({i \in 1..Len(RAW_WALLETS) :
    ScopeOf(RAW_WALLETS[i]) = c \/ (ScopeOf(RAW_WALLETS[i]) = "" /\ ~AnyScoped)})

\* C32: the snapshot's CSV is written only by a run that ended with code 0
\* after the last chain, and then holds the header and, for every selected
\* (chain, wallet) pair, one native row and one row per token of the chain,
\* and nothing else; a run ended by a failed block resolution or balance
\* read has exit code 1, has written no file and takes no further step.
C32_AllOrNothing ==
    /\ outFile # <<>> => spc = "done"
    /\ spc = "done" =>
          /\ sExit = 0 /\ sChainIdx > Len(CHAINS)
          /\ outFile # <<>> /\ outFile[1].kind = "header"
          /\ Len(outFile) = 1 + PairCount("base") * (1 + Len(TOKENS("base")))
                               + PairCount("optimism") * (1 + Len(TOKENS("optimism")))
          /\ \A c \in {"base", "optimism"} : \A w \in Addresses :
                /\ Lines("native", c, w, "ETH") = Selections(c, w)
                /\ \A k \in 1..Len(TOKENS(c)) : Lines("erc20", c, w, TOKENS(c)[k]) = Selections(c, w)
    /\ spc = "exit" => (sExit = 1 /\ outFile = <<>> /\ ~ENABLED NextSnapshot)

\* the first chain was read, the second chain's wallet failed at a token
\* read after its native row was pushed: nothing is written
C32_Witness ==
    /\ spc = "exit" /\ sExit = 1 /\ outFile = <<>>
    /\ sChainIdx = 2 /\ Len(csvRows) = 5
    /\ csvRows[2].chain = "base" /\ csvRows[4].chain = "optimism" /\ csvRows[5].kind = "erc20"

====
